---- MODULE Spec2Model ----
(***************************************************************************)
(* Model of point_cloud_gui.py: the App object of the point cloud          *)
(* resampler and fitter, its three button callbacks (load_data,            *)
(* resample_and_fit, export_results) and the grid sizing rule.             *)
(*                                                                         *)
(* Numbers.  Coordinates are exact rationals.  A coordinate of a loaded    *)
(* table is an integer counted in half units (a file value v is held as    *)
(* 2v), so that the centre (min + max) / 2 is again an integer.  A grid    *)
(* coordinate produced by np.linspace is a fraction <<num, den>> of half   *)
(* units with den > 0.  z columns produced by scipy's griddata and by the  *)
(* polynomial module are kept as terms naming the call and its arguments.  *)
(***************************************************************************)
EXTENDS Integers, Sequences, FiniteSets, TLC

VARIABLES
    data,                 \* self.data: None or the table's first three columns
    shifted_data,         \* self.shifted_data: None or the centred copy
    resampled,            \* self.resampled: None or (xf, yf, zf)
    fitted,               \* self.fitted: None or (xf, yf, z_fit)
    coeff,                \* self.coeff: attribute absent until first assigned
    resample_fit_button,  \* state of the "Resample & Fit" button
    output_button,        \* state of the "Export Results" button
    frame                 \* locals and exit point of the callback that ran last

vars == <<data, shifted_data, resampled, fitted, coeff,
          resample_fit_button, output_button, frame>>

(***************************************************************************)
(* Bounds of the model.                                                    *)
(***************************************************************************)
MaxAspect == 2     \* largest aspect ratio (a : 1 or 1 : a) of a loadable table
MaxSteps == 2      \* largest step count typed into the steps field
MaxDeg == 1        \* largest degree typed into the degree field
MaxGridSteps == 5  \* GridSpec: largest step count
MaxRange == 6      \* GridSpec: largest extent (file units)

None == [is |-> "None"]
NoAttribute == [is |-> "AttributeError"]
DISABLED == "disabled"
NORMAL == "normal"

(***************************************************************************)
(* Small arithmetic helpers (numpy's min / max over a column).             *)
(***************************************************************************)
SeqMin(s) == CHOOSE v \in {s[i] : i \in 1..Len(s)} : \A i \in 1..Len(s) : v <= s[i]

SeqMax(s) == CHOOSE v \in {s[i] : i \in 1..Len(s)} : \A i \in 1..Len(s) : v >= s[i]

Column(rows, c) == [i \in 1..Len(rows) |-> rows[i][c]]

(***************************************************************************)
(* int(text): Python's int() on the content of an Entry, restricted to an  *)
(* optional minus sign followed by decimal digits.  Anything else raises   *)
(* ValueError.  A text is a sequence of one-character strings.             *)
(***************************************************************************)
Digits == <<"0", "1", "2", "3", "4", "5", "6", "7", "8", "9">>

IsDigit(c) == \E i \in 1..Len(Digits) : Digits[i] = c

DigitVal(c) == (CHOOSE i \in 1..Len(Digits) : Digits[i] = c) - 1

RECURSIVE DecimalValue(_)
DecimalValue(t) ==
    IF t = <<>> THEN 0
    ELSE 10 * DecimalValue(SubSeq(t, 1, Len(t) - 1)) + DigitVal(t[Len(t)])

int(t) ==
    LET neg == t # <<>> /\ Head(t) = "-"
        body == IF neg THEN Tail(t) ELSE t
    IN  IF body = <<>> \/ \E i \in 1..Len(body) : ~IsDigit(body[i])
        THEN [ok |-> FALSE, val |-> 0]
        ELSE [ok |-> TRUE,
              val |-> IF neg THEN 0 - DecimalValue(body) ELSE DecimalValue(body)]

(***************************************************************************)
(* round(): Python 3 rounds a float to the nearest integer, ties to the    *)
(* even neighbour.  RoundHalfEven(n, d) is round(n / d) for d > 0.         *)
(***************************************************************************)
FloorDiv(n, d) == IF n >= 0 THEN n \div d ELSE 0 - (((0 - n) + d - 1) \div d)

RoundHalfEven(n, d) ==
    LET q == FloorDiv(n, d)
        r == n - q * d
    IN  IF 2 * r < d THEN q
        ELSE IF 2 * r > d THEN q + 1
        ELSE IF q % 2 = 0 THEN q ELSE q + 1

(***************************************************************************)
(* Grid resolution for square cells (lines 118-126): the pair              *)
(* <<steps_x, steps_y>>.                                                   *)
(***************************************************************************)
\* Variants of GridSteps with a slip in them, used to show that the properties
\* below depend on the rule: int() without round(), the longer axis keeping
\* the requested count, no scaling at all, and the ratio taken upside down.
GridStepsTruncated(steps, range_x, range_y) ==
    IF range_x <= range_y
    THEN <<steps, IF range_x > 0 THEN FloorDiv(steps * range_y, range_x) ELSE steps>>
    ELSE <<IF range_y > 0 THEN FloorDiv(steps * range_x, range_y) ELSE steps, steps>>

GridStepsLongerKeeps(steps, range_x, range_y) ==
    IF range_x >= range_y
    THEN <<steps,
           IF range_x > 0 THEN RoundHalfEven(steps * range_y, range_x) ELSE steps>>
    ELSE <<IF range_y > 0 THEN RoundHalfEven(steps * range_x, range_y) ELSE steps,
           steps>>

GridStepsUnscaled(steps, range_x, range_y) == <<steps, steps>>

GridStepsInverseRatio(steps, range_x, range_y) ==
    IF range_x <= range_y
    THEN <<steps,
           IF range_y > 0 THEN RoundHalfEven(steps * range_x, range_y) ELSE steps>>
    ELSE <<IF range_x > 0 THEN RoundHalfEven(steps * range_y, range_x) ELSE steps,
           steps>>

GridSteps(steps, range_x, range_y) ==
    IF range_x <= range_y
    THEN <<steps,
           IF range_x > 0 THEN RoundHalfEven(steps * range_y, range_x) ELSE steps>>
    ELSE <<IF range_y > 0 THEN RoundHalfEven(steps * range_x, range_y) ELSE steps,
           steps>>

(***************************************************************************)
(* The files the user can pick in the file dialog.  A file is what         *)
(* np.loadtxt makes of it: parses = FALSE when both loadtxt calls raise,   *)
(* else the rows of numbers.  Point tables are four outlines placed away   *)
(* from the origin, with extents w by h file units (2w by 2h half units):  *)
(* the corners of a rectangle, a right triangle, the side midpoints of the *)
(* rectangle (a diamond), and three points on a line.  z is x + y.         *)
(***************************************************************************)
Row(x, y) == <<x + 2, y + 4, x + y>>

RectRows(w, h) == <<Row(0, 0), Row(2 * w, 0), Row(0, 2 * h), Row(2 * w, 2 * h)>>

TriRows(w, h) == <<Row(0, 0), Row(2 * w, 0), Row(0, 2 * h)>>

DiamondRows(w, h) == <<Row(w, 0), Row(0, h), Row(2 * w, h), Row(w, 2 * h)>>

LineRows(w) == <<Row(0, 0), Row(w, 0), Row(2 * w, 0)>>    \* collinear points

Extents == UNION {{<<a, 1>>, <<1, a>>} : a \in 1..MaxAspect}

PointFiles ==
    {[parses |-> TRUE, rows |-> r] :
        r \in UNION {{RectRows(e[1], e[2]), TriRows(e[1], e[2]),
                      DiamondRows(e[1], e[2]), LineRows(e[1])} : e \in Extents}}

OddFiles ==
    { [parses |-> FALSE, rows |-> <<>>],                       \* not numeric
      [parses |-> TRUE, rows |-> <<Row(0, 0)>>],               \* a single row
      [parses |-> TRUE, rows |-> << <<2, 4>>, <<4, 4>>, <<2, 6>> >>],  \* two columns
      [parses |-> TRUE,                                        \* four columns
       rows |-> [i \in 1..3 |-> Append(TriRows(1, 1)[i], 7)]] }

Files == PointFiles \cup OddFiles

NoFile == [parses |-> FALSE, rows |-> << <<>> >>]   \* the dialog was cancelled

(***************************************************************************)
(* load_data, lines 84-92: self.data is the first three columns and        *)
(* self.shifted_data a copy of it moved so that the bounding box of (x, y) *)
(* is centred on the origin.                                               *)
(***************************************************************************)
\* data[:, :3]: a slice takes the columns there are, three at most.
FirstThree(rows) ==
    [i \in 1..Len(rows) |->
        SubSeq(rows[i], 1, IF Len(rows[i]) < 3 THEN Len(rows[i]) ELSE 3)]

Centre(rows) ==
    LET x == Column(rows, 1)
        y == Column(rows, 2)
        cx == (SeqMin(x) + SeqMax(x)) \div 2
        cy == (SeqMin(y) + SeqMax(y)) \div 2
    IN  [i \in 1..Len(rows) |-> <<rows[i][1] - cx, rows[i][2] - cy, rows[i][3]>>]

\* A variant of CentreCopy without the copy of line 89: self.data is shifted too.
CentreInPlace(rows) ==
    [data |-> [rows |-> Centre(FirstThree(rows))],
     shifted_data |-> [rows |-> Centre(FirstThree(rows))]]

CentreCopy(rows) ==
    [data |-> [rows |-> FirstThree(rows)],
     shifted_data |-> [rows |-> Centre(FirstThree(rows))]]

(***************************************************************************)
(* np.linspace(lo, hi, n) for n >= 0: n evenly spaced fractions from lo to *)
(* hi, both ends included; [lo] when n = 1, empty when n = 0.              *)
(***************************************************************************)
LinspaceDen(n) == IF n > 1 THEN n - 1 ELSE 1

\* np.linspace(..., endpoint=False): a variant that stops one step short of hi.
linspaceNoEndpoint(lo, hi, n) ==
    [k \in 1..n |-> <<lo * n + (k - 1) * (hi - lo), n>>]

linspace(lo, hi, n) ==
    [k \in 1..n |-> <<lo * LinspaceDen(n) + (k - 1) * (hi - lo), LinspaceDen(n)>>]

(***************************************************************************)
(* scipy griddata(method='linear'): a grid node gets a value exactly when  *)
(* it lies in the convex hull of the input (x, y), that is in a proper     *)
(* triangle of three input points; otherwise NaN.  Input without a proper  *)
(* triangle (fewer than three points, all collinear) makes Qhull raise.    *)
(***************************************************************************)
Orient(a, b, px, py) ==
    (b[1] - a[1]) * (py[1] - a[2] * py[2]) * px[2]
        - (b[2] - a[2]) * (px[1] - a[1] * px[2]) * py[2]

Proper(a, b, c) == Orient(a, b, <<c[1], 1>>, <<c[2], 1>>) # 0

InTriangle(a, b, c, px, py) ==
    LET d1 == Orient(a, b, px, py)
        d2 == Orient(b, c, px, py)
        d3 == Orient(c, a, px, py)
    IN  ~((d1 < 0 \/ d2 < 0 \/ d3 < 0) /\ (d1 > 0 \/ d2 > 0 \/ d3 > 0))

Triangles(rows) ==
    {t \in (1..Len(rows)) \X (1..Len(rows)) \X (1..Len(rows)) :
        t[1] < t[2] /\ t[2] < t[3] /\ Proper(rows[t[1]], rows[t[2]], rows[t[3]])}

QhullRaises(rows) == Triangles(rows) = {}

InHull(rows, px, py) ==
    \E t \in Triangles(rows) : InTriangle(rows[t[1]], rows[t[2]], rows[t[3]], px, py)

\* grid_x, grid_y = np.meshgrid(xi, yi) flattened row by row: node k of the
\* steps_x * steps_y lattice.
NodeX(xi, k) == xi[((k - 1) % Len(xi)) + 1]

NodeY(xi, yi, k) == yi[((k - 1) \div Len(xi)) + 1]

\* mask = ~np.isnan(grid_z): the lattice nodes that got a value, in order.
Mask(rows, xi, yi) ==
    SelectSeq([k \in 1..(Len(xi) * Len(yi)) |-> k],
              LAMBDA k : InHull(rows, NodeX(xi, k), NodeY(xi, yi, k)))

\* zf = grid_z[mask]: the interpolated values, kept as the call that made them.
Griddata(rows, xf, yf) == [fn |-> "griddata", points |-> rows, x |-> xf, y |-> yf]

(***************************************************************************)
(* The polynomial module (polyfit2d, polyval2d).  Coefficients and fitted  *)
(* values are kept as the call that made them.  polyfit2d fails when the   *)
(* degree is negative, when there are fewer points than monomials          *)
(* (Underdetermined) and when the points are collinear and the degree is   *)
(* at least 1 (SingularFit).                                               *)
(***************************************************************************)
Monomials(deg) == ((deg + 1) * (deg + 2)) \div 2

Collinear(xf, yf) ==
    \A i, j, k \in 1..Len(xf) :
        (xf[j][1] - xf[i][1]) * (yf[k][1] - yf[i][1])
            = (yf[j][1] - yf[i][1]) * (xf[k][1] - xf[i][1])

Polyfit2dRaises(xf, yf, deg) ==
    \/ deg < 0
    \/ Len(xf) < Monomials(deg)
    \/ deg >= 1 /\ Collinear(xf, yf)

polyfit2d(xf, yf, zf, deg) ==
    [fn |-> "polyfit2d", x |-> xf, y |-> yf, z |-> zf, deg |-> deg,
     len |-> Monomials(deg)]

polyval2d(xf, yf, c) == [fn |-> "polyval2d", x |-> xf, y |-> yf, coeff |-> c]

(***************************************************************************)
(* What the user can have typed into the two Entry fields when the         *)
(* "Resample & Fit" button is pressed.                                     *)
(***************************************************************************)
StepTexts == {<<"-", "1">>, <<"x">>} \cup {<<Digits[n + 1]>> : n \in 0..MaxSteps}

DegreeTexts == {<<>>} \cup {<<Digits[n + 1]>> : n \in 0..MaxDeg}

(***************************************************************************)
(* App.__init__                                                            *)
(***************************************************************************)
Init ==
    /\ data = None
    /\ shifted_data = None
    /\ resampled = None
    /\ fitted = None
    /\ coeff = NoAttribute
    /\ resample_fit_button = DISABLED
    /\ output_button = DISABLED
    /\ frame = [op |-> "__init__", exit |-> "done"]

(***************************************************************************)
(* App.load_data.  The reset of lines 65-70 comes first, whatever follows. *)
(***************************************************************************)
\* A variant of Reset that leaves out line 70.
ResetKeepsExport ==
    [data |-> None, shifted_data |-> None, resampled |-> None, fitted |-> None,
     resample_fit_button |-> DISABLED, output_button |-> output_button]

Reset ==
    [data |-> None, shifted_data |-> None, resampled |-> None, fitted |-> None,
     resample_fit_button |-> DISABLED, output_button |-> DISABLED]

\* The exit point of load_data for the chosen file.
LoadExit(f) ==
    IF f = NoFile THEN "cancelled"                        \* line 76
    ELSE IF ~f.parses THEN "loadtxt raised"               \* line 80
    ELSE IF Len(f.rows) < 2 THEN "IndexError"             \* line 81, 1-D array
    ELSE IF Len(f.rows[1]) < 3 THEN "too few columns"     \* line 83
    ELSE "loaded"

\* Lines 84-92 for every file that gets there (a table of CentreCopy).
Loaded == [f \in {h \in Files : LoadExit(h) = "loaded"} |-> CentreCopy(f.rows)]

load_data ==
    \E f \in Files \cup {NoFile} :
        LET exit == LoadExit(f)
        IN  /\ data' = IF exit = "loaded" THEN Loaded[f].data ELSE Reset.data
            /\ shifted_data' =
                   IF exit = "loaded" THEN Loaded[f].shifted_data
                   ELSE Reset.shifted_data
            /\ resampled' = Reset.resampled
            /\ fitted' = Reset.fitted
            /\ resample_fit_button' =
                   IF exit = "loaded" THEN NORMAL ELSE Reset.resample_fit_button
            /\ output_button' = Reset.output_button
            /\ frame' = [op |-> "load_data", exit |-> exit]
            /\ UNCHANGED coeff

(***************************************************************************)
(* App.resample_and_fit.  An exception leaves the callback at the line     *)
(* that raised it; Tk reports it and the main loop goes on, so every       *)
(* assignment made before that line stays.                                 *)
(***************************************************************************)
\* Lines 114-135: the grid and the masked interpolation of a centred table.
\* raised names the call that raised, "" when none did.
Grid(rows, steps) ==
    LET x == Column(rows, 1)
        y == Column(rows, 2)
        range_x == SeqMax(x) - SeqMin(x)
        range_y == SeqMax(y) - SeqMin(y)
        g == GridSteps(steps, range_x, range_y)
        xi == linspace(SeqMin(x), SeqMax(x), g[1])
        yi == linspace(SeqMin(y), SeqMax(y), g[2])
        mask == Mask(rows, xi, yi)
        xf == [i \in 1..Len(mask) |-> NodeX(xi, mask[i])]
        yf == [i \in 1..Len(mask) |-> NodeY(xi, yi, mask[i])]
    IN  IF g[1] < 0 \/ g[2] < 0                       \* np.linspace: ValueError
        THEN [range_x |-> range_x, range_y |-> range_y, g |-> g,
              raised |-> "linspace", xf |-> <<>>, yf |-> <<>>, zf |-> None]
        ELSE IF QhullRaises(rows)                     \* griddata: QhullError
        THEN [range_x |-> range_x, range_y |-> range_y, g |-> g,
              raised |-> "griddata", xf |-> <<>>, yf |-> <<>>, zf |-> None]
        ELSE [range_x |-> range_x, range_y |-> range_y, g |-> g,
              raised |-> "", xf |-> xf, yf |-> yf, zf |-> Griddata(rows, xf, yf)]

\* Grid and Polyfit2dRaises depend on the table and the two numbers only;
\* they are tabulated over the tables and numbers that can occur.
StepValues == {int(t).val : t \in {u \in StepTexts : int(u).ok}}

DegreeValues == {int(t).val : t \in {u \in DegreeTexts : int(u).ok}}

Tables == {Loaded[f].shifted_data.rows : f \in DOMAIN Loaded}

GridOf == [rows \in Tables, steps \in StepValues |-> Grid(rows, steps)]

FitRaises ==
    [rows \in Tables, steps \in StepValues, deg \in DegreeValues |->
        Polyfit2dRaises(GridOf[rows, steps].xf, GridOf[rows, steps].yf, deg)]

Locals(exit, steps, deg, grid) ==
    [op |-> "resample_and_fit", exit |-> exit, steps |-> steps, deg |-> deg,
     range_x |-> grid.range_x, range_y |-> grid.range_y,
     steps_x |-> grid.g[1], steps_y |-> grid.g[2]]

\* The line at which a call that got past int() ends.
ResampleExit(rows, steps, deg) ==
    IF GridOf[rows, steps].raised = "linspace" THEN "linspace raised"    \* 128-129
    ELSE IF GridOf[rows, steps].raised = "griddata" THEN "griddata raised" \* 131
    ELSE IF FitRaises[rows, steps, deg] THEN "polyfit2d raised"          \* 138
    ELSE "done"

Resample(st, dt) ==
    LET steps == int(st)
        deg == int(dt)
    IN  IF shifted_data = None                                           \* 106
        THEN /\ frame' = [op |-> "resample_and_fit", exit |-> "no data"]
             /\ UNCHANGED <<data, shifted_data, resampled, fitted, coeff,
                            resample_fit_button, output_button>>
        ELSE IF ~steps.ok \/ ~deg.ok                                     \* 111
        THEN /\ frame' = [op |-> "resample_and_fit", exit |-> "ValueError"]
             /\ UNCHANGED <<data, shifted_data, resampled, fitted, coeff,
                            resample_fit_button, output_button>>
        ELSE
        \E grid \in {GridOf[shifted_data.rows, steps.val]},
           exit \in {ResampleExit(shifted_data.rows, steps.val, deg.val)} :
        \E c \in {polyfit2d(grid.xf, grid.yf, grid.zf, deg.val)} :
            /\ frame' = Locals(exit, steps.val, deg.val, grid)
            /\ resampled' = IF exit \in {"polyfit2d raised", "done"}     \* 136
                            THEN [x |-> grid.xf, y |-> grid.yf, z |-> grid.zf]
                            ELSE resampled
            /\ coeff' = IF exit = "done" THEN c ELSE coeff               \* 139
            /\ fitted' = IF exit = "done"                                \* 142
                         THEN [x |-> grid.xf, y |-> grid.yf,
                               z |-> polyval2d(grid.xf, grid.yf, c)]
                         ELSE fitted
            /\ output_button' = IF exit = "done" THEN NORMAL ELSE output_button
            /\ UNCHANGED <<data, shifted_data, resample_fit_button>>

resample_and_fit ==
    /\ resample_fit_button = NORMAL
    /\ \E st \in StepTexts, dt \in DegreeTexts : Resample(st, dt)

(***************************************************************************)
(* App.export_results.  What np.savetxt wrote is kept in the frame.        *)
(***************************************************************************)
ExportExit(dir_path) ==
    IF coeff = NoAttribute THEN "AttributeError"                     \* line 158
    ELSE IF coeff = None \/ resampled = None \/ fitted = None THEN "nothing to export"
    ELSE IF dir_path = "" THEN "cancelled"                           \* line 162
    ELSE "saved"

export_results ==
    /\ output_button = NORMAL
    /\ \E dir_path \in {"", "out"} :
        /\ frame' = IF ExportExit(dir_path) = "saved"
                    THEN [op |-> "export_results", exit |-> "saved",
                          coeff_csv |-> coeff, resampled_csv |-> resampled,
                          fitted_csv |-> fitted]
                    ELSE [op |-> "export_results", exit |-> ExportExit(dir_path)]
        /\ UNCHANGED <<data, shifted_data, resampled, fitted, coeff,
                       resample_fit_button, output_button>>

Next == load_data \/ resample_and_fit \/ export_results

Spec == Init /\ [][Next]_vars

(***************************************************************************)
(* GridSpec: the grid sizing of lines 118-126 on its own.  A two-point     *)
(* table of extents rx by ry (0..MaxRange file units each) has been        *)
(* loaded, a step count in 1..MaxGridSteps has been read from the steps    *)
(* field, and resample_and_fit stands at line 118.                         *)
(***************************************************************************)
TwoPointRows(rx, ry) == <<Row(0, 0), Row(2 * rx, 2 * ry)>>

GridInit ==
    \E s \in 1..MaxGridSteps, rx \in 0..MaxRange, ry \in 0..MaxRange :
        /\ data = CentreCopy(TwoPointRows(rx, ry)).data
        /\ shifted_data = CentreCopy(TwoPointRows(rx, ry)).shifted_data
        /\ resampled = None
        /\ fitted = None
        /\ coeff = NoAttribute
        /\ resample_fit_button = NORMAL
        /\ output_button = DISABLED
        /\ frame = [op |-> "resample_and_fit", exit |-> "line 118", steps |-> s,
                    range_x |-> 0, range_y |-> 0, steps_x |-> 0, steps_y |-> 0]

GridSizing ==
    LET x == Column(shifted_data.rows, 1)
        y == Column(shifted_data.rows, 2)
        range_x == SeqMax(x) - SeqMin(x)
        range_y == SeqMax(y) - SeqMin(y)
    IN  /\ frame.exit = "line 118"
        /\ frame' = [frame EXCEPT
                        !.exit = "sized",
                        !.range_x = range_x,
                        !.range_y = range_y,
                        !.steps_x = GridSteps(frame.steps, range_x, range_y)[1],
                        !.steps_y = GridSteps(frame.steps, range_x, range_y)[2]]
        /\ UNCHANGED <<data, shifted_data, resampled, fitted, coeff,
                       resample_fit_button, output_button>>

GridSpec == GridInit /\ [][GridSizing]_vars

(***************************************************************************)
(*                              Properties                                 *)
(***************************************************************************)
\* The frame holds the step counts of lines 118-126.
Sized ==
    /\ frame.op = "resample_and_fit"
    /\ frame.exit \in {"sized", "linspace raised", "griddata raised",
                       "polyfit2d raised", "done"}

\* The call assigned self.resampled (line 136) and called polyfit2d (line 138).
ReachedFit ==
    /\ frame.op = "resample_and_fit"
    /\ frame.exit \in {"polyfit2d raised", "done"}

\* k is an integer nearest to n / d (d > 0); at a tie both neighbours are.
Nearest(k, n, d) ==
    /\ 2 * (k * d - n) <= d
    /\ 2 * (n - k * d) <= d

\* C1: for positive steps and non-negative extents the step counts follow the
\* reference rule: with range_x <= range_y, steps_x = steps and steps_y is
\* steps * range_y / range_x rounded to the nearest integer (steps when
\* range_x = 0); otherwise the same with x and y swapped.
C1_GridStepRule ==
    (Sized /\ frame.steps >= 1) =>
        IF frame.range_x <= frame.range_y
        THEN /\ frame.steps_x = frame.steps
             /\ IF frame.range_x = 0 THEN frame.steps_y = frame.steps
                ELSE Nearest(frame.steps_y, frame.steps * frame.range_y, frame.range_x)
        ELSE /\ frame.steps_y = frame.steps
             /\ IF frame.range_y = 0 THEN frame.steps_x = frame.steps
                ELSE Nearest(frame.steps_x, frame.steps * frame.range_x, frame.range_y)

\* C1 witness: a sized grid whose scaled count is a proper rounding: extents
\* 3 by 4 (6 by 8 half units), 2 * 4 / 3 = 2.67 -> 3.
C1_Witness ==
    /\ Sized
    /\ frame.steps = 2 /\ frame.range_x = 6 /\ frame.range_y = 8
    /\ frame.steps_x = 2 /\ frame.steps_y = 3

\* The step counts along the axis of the larger / smaller extent.
StepsLonger == IF frame.range_x > frame.range_y THEN frame.steps_x ELSE frame.steps_y

StepsShorter == IF frame.range_x > frame.range_y THEN frame.steps_y ELSE frame.steps_x

Longer == IF frame.range_x > frame.range_y THEN frame.range_x ELSE frame.range_y

Shorter == IF frame.range_x > frame.range_y THEN frame.range_y ELSE frame.range_x

\* C2 as stated: when the extents differ, the axis with the larger extent gets
\* exactly steps and the other axis gets steps scaled by the extent ratio
\* (either way up) and rounded.
C2_LongerAxisKeepsSteps ==
    (Sized /\ frame.steps >= 1 /\ frame.range_x # frame.range_y) =>
        /\ StepsLonger = frame.steps
        /\ Shorter > 0 =>
              \/ Nearest(StepsShorter, frame.steps * Shorter, Longer)
              \/ Nearest(StepsShorter, frame.steps * Longer, Shorter)

\* C2 amended: when the extents differ, the axis with the smaller extent gets
\* exactly steps, and the axis with the larger extent gets steps * larger /
\* smaller rounded to the nearest integer (steps, unscaled, when the smaller
\* extent is 0).
C2_ShorterAxisKeepsSteps ==
    (Sized /\ frame.steps >= 1 /\ frame.range_x # frame.range_y) =>
        /\ StepsShorter = frame.steps
        /\ IF Shorter = 0 THEN StepsLonger = frame.steps
           ELSE Nearest(StepsLonger, frame.steps * Longer, Shorter)

\* C2 witness: x is the longer axis and got more than the requested count.
C2_Witness ==
    /\ Sized
    /\ frame.range_x > frame.range_y /\ frame.range_y > 0
    /\ frame.steps >= 1
    /\ frame.steps_y = frame.steps /\ frame.steps_x > frame.steps

\* C3: equal extents (both zero included) give steps_x = steps_y = steps, and
\* range_x = 2 * range_y > 0 gives steps_x = 2 * steps_y.
C3_GridSizing ==
    (Sized /\ frame.steps >= 1) =>
        /\ frame.range_x = frame.range_y =>
              frame.steps_x = frame.steps /\ frame.steps_y = frame.steps
        /\ (frame.range_x = 2 * frame.range_y /\ frame.range_y > 0) =>
              frame.steps_x = 2 * frame.steps_y

\* C3 witness: a sized grid twice as wide as high, with an odd step count.
C3_Witness ==
    /\ Sized
    /\ frame.range_x = 2 * frame.range_y /\ frame.range_y > 0
    /\ frame.steps = 3 /\ frame.steps_x = 6 /\ frame.steps_y = 3

\* C10: for steps >= 1 neither axis gets fewer than steps nodes, and the
\* smaller of the two counts is steps.
C10_MinimumStepCount ==
    (Sized /\ frame.steps >= 1) =>
        /\ frame.steps_x >= frame.steps
        /\ frame.steps_y >= frame.steps
        /\ (frame.steps_x = frame.steps \/ frame.steps_y = frame.steps)

\* C10 witness: the most extreme aspect ratio, 1 : 6, at the smallest count.
C10_Witness ==
    /\ Sized
    /\ frame.steps = 1 /\ frame.range_x = 2 /\ frame.range_y = 12
    /\ frame.steps_x = 1 /\ frame.steps_y = 6

\* C4: whenever export_results writes its three tables, they come from one
\* resample-and-fit cycle: resampled and fitted have the same (x, y) at every
\* row, and fitted's z is the evaluation of the written coeff at the written
\* resampled (x, y).
C4_ExportedTablesAgree ==
    (frame.op = "export_results" /\ frame.exit = "saved") =>
        /\ frame.fitted_csv.x = frame.resampled_csv.x
        /\ frame.fitted_csv.y = frame.resampled_csv.y
        /\ frame.fitted_csv.z =
              polyval2d(frame.resampled_csv.x, frame.resampled_csv.y, frame.coeff_csv)

\* C5: a call with steps < 1 fails before a grid is built: it does not get to
\* line 136 (no ResampledSet is stored), polyfit2d is not called and the
\* export button is not enabled by the call.
C5_NonPositiveStepsRejected ==
    (Sized /\ frame.steps < 1) => ~ReachedFit

\* C6: polyfit2d and polyval2d are never run on an empty ResampledSet: a call
\* whose interpolation leaves no defined grid node does not get to the fit and
\* does not enable the export.  Stated for the calls that built a lattice with
\* nodes in it (steps_x * steps_y > 0); a step count below 1 is C5's case.
C6_FitNeverOnEmptySet ==
    (ReachedFit /\ frame.steps_x * frame.steps_y > 0) => Len(resampled.x) > 0

\* p is one of the n evenly spaced coordinates from lo to hi.
OnAxisLattice(p, lo, hi, n) ==
    \E k \in 0..(n - 1) :
        IF n = 1 THEN p[1] = lo * p[2]
        ELSE p[1] * (n - 1) = (lo * (n - 1) + k * (hi - lo)) * p[2]

Within(p, lo, hi) == lo * p[2] <= p[1] /\ p[1] <= hi * p[2]

\* C7: for steps >= 1 every (x, y) stored in the resampled set is a node of the
\* steps_x by steps_y lattice over the bounding box of the centred input, lies
\* within that box, and the set has at most steps_x * steps_y entries.
C7_Bounding ==
    (ReachedFit /\ frame.steps >= 1) =>
        LET x == Column(shifted_data.rows, 1)
            y == Column(shifted_data.rows, 2)
        IN  /\ Len(resampled.x) <= frame.steps_x * frame.steps_y
            /\ Len(resampled.y) = Len(resampled.x)
            /\ \A i \in 1..Len(resampled.x) :
                  /\ OnAxisLattice(resampled.x[i], SeqMin(x), SeqMax(x), frame.steps_x)
                  /\ OnAxisLattice(resampled.y[i], SeqMin(y), SeqMax(y), frame.steps_y)
                  /\ Within(resampled.x[i], SeqMin(x), SeqMax(x))
                  /\ Within(resampled.y[i], SeqMin(y), SeqMax(y))

\* C7 witness: a non-square lattice of which some, not all, nodes were kept,
\* one of them strictly inside the box.
C7_Witness ==
    /\ ReachedFit
    /\ frame.steps >= 1
    /\ frame.steps_x # frame.steps_y
    /\ Len(resampled.x) > 0
    /\ Len(resampled.x) < frame.steps_x * frame.steps_y
    /\ \E i \in 1..Len(resampled.x) :
          /\ resampled.y[i][1] > SeqMin(Column(shifted_data.rows, 2)) * resampled.y[i][2]
          /\ resampled.y[i][1] < SeqMax(Column(shifted_data.rows, 2)) * resampled.y[i][2]

\* C8: only load_data changes self.data and self.shifted_data, and self.data
\* keeps the file's own coordinates (its first three columns).
C8_PointSetImmutable ==
    [][/\ (data' # data \/ shifted_data' # shifted_data) => frame'.op = "load_data"
       /\ data' # None =>
             \E f \in Files :
                 /\ f.parses
                 /\ Len(f.rows[1]) >= 3
                 /\ data'.rows = FirstThree(f.rows)]_vars

\* C8 witness: tables were exported after a completed fit, and the loaded
\* table is still there, distinct from its centred copy.
C8_Witness ==
    /\ frame.op = "export_results"
    /\ frame.exit = "saved"
    /\ data # None
    /\ shifted_data # None
    /\ data # shifted_data

\* C9: "Resample & Fit" is enabled only with shifted_data set; "Export
\* Results" only with resampled, fitted and coeff all assigned; and after any
\* load_data, whatever its outcome, resampled and fitted are cleared, the
\* export is disabled, and the fit is disabled unless a table was loaded.
C9_ButtonEnablement ==
    /\ resample_fit_button = NORMAL => shifted_data # None
    /\ output_button = NORMAL =>
          resampled # None /\ fitted # None /\ coeff # NoAttribute /\ coeff # None
    /\ frame.op = "load_data" =>
          /\ resampled = None
          /\ fitted = None
          /\ output_button = DISABLED
          /\ frame.exit # "loaded" =>
                resample_fit_button = DISABLED /\ shifted_data = None /\ data = None

\* C9 witness: a load that failed after a completed fit: coeff is still there
\* and both buttons are disabled again.
C9_Witness ==
    /\ frame.op = "load_data"
    /\ frame.exit \in {"cancelled", "loadtxt raised", "IndexError", "too few columns"}
    /\ coeff # NoAttribute
    /\ output_button = DISABLED
    /\ resample_fit_button = DISABLED

====
